---- MODULE Spec2Model ----
(***************************************************************************)
(* Model of flatiron_snowflake_loader/loader.py: the `process` command     *)
(* (unpack an archive, PUT every file to the schema's user stage, list the *)
(* stage, CREATE OR REPLACE + COPY INTO one table per staged *.csv.gz) and *)
(* the two pure naming helpers.                                            *)
(*                                                                         *)
(* Strings are sequences of one-character strings, so that str.replace,    *)
(* str.endswith and pathlib's .name are computed character by character.   *)
(***************************************************************************)
EXTENDS Integers, Sequences, FiniteSets, TLC

VARIABLES
    pc,           \* position of the current invocation of process()
    run,          \* number of invocations of process() started so far
    archive,      \* files of the zipfile argument of the current invocation
    schema,       \* schema argument of the current invocation
    autoCompress, \* whether the warehouse gzips uncompressed files on PUT
    session,      \* warehouse connection of the current invocation
    curSchema,    \* current schema of the session of the current invocation
    schemas,      \* schemas that exist in the warehouse database
    tempDir,      \* mkdtemp() directory of the current invocation
    todo,         \* files of temp_dir not yet visited by the upload loop
    stage,        \* paths stored in the user stage @~
    staged,       \* rows fetched from `list`, in the order returned
    k,            \* number of rows of staged the loop has finished with
    log,          \* statements / file operations issued by this invocation
    tables,       \* <<schema, table>> -> sequence of loads <<path, run>>
    everPut,      \* history: every path a successful PUT has stored
    prev,         \* history: how the previous invocation ended
    probe,        \* input of the pure-function specifications
    result        \* output of the pure-function specifications

vars == <<pc, run, archive, schema, autoCompress, session, curSchema, schemas,
          tempDir, todo, stage, staged, k, log, tables, everPut, prev, probe,
          result>>

(***************************************************************************)
(* Bounds                                                                  *)
(***************************************************************************)
MaxRuns == 2      \* invocations of process() in one behaviour
MaxPieces == 3    \* pieces concatenated into a probe string

(***************************************************************************)
(* String helpers (Python str / pathlib semantics)                         *)
(***************************************************************************)
StagePrefix == <<"@", "~", "/">>                       \* '@~/'
CsvGz == <<".", "c", "s", "v", ".", "g", "z">>         \* '.csv.gz'
Gz == <<".", "g", "z">>                                \* '.gz'
Slash == <<"/">>

\* s.endswith(suf)
EndsWith(s, suf) ==
    /\ Len(s) >= Len(suf)
    /\ SubSeq(s, Len(s) - Len(suf) + 1, Len(s)) = suf

\* s.startswith(p)
StartsWith(s, p) ==
    /\ Len(s) >= Len(p)
    /\ SubSeq(s, 1, Len(p)) = p

\* s.replace(old, new) for a non-empty old: every non-overlapping occurrence,
\* scanning left to right, is replaced; the replacement is not rescanned.
RECURSIVE Replace(_, _, _)
Replace(s, old, new) ==
    IF Len(s) < Len(old) THEN s
    ELSE IF SubSeq(s, 1, Len(old)) = old
         THEN new \o Replace(SubSeq(s, Len(old) + 1, Len(s)), old, new)
         ELSE <<Head(s)>> \o Replace(Tail(s), old, new)

\* pathlib.Path(p).name for a path that does not end in '/'
PathName(p) ==
    IF \E i \in 1..Len(p) : p[i] = "/"
    THEN LET i == CHOOSE m \in 1..Len(p) :
                     p[m] = "/" /\ \A j \in (m + 1)..Len(p) : p[j] # "/"
         IN  SubSeq(p, i + 1, Len(p))
    ELSE p

\* Concatenation of a sequence of strings
RECURSIVE Concat(_)
Concat(ss) == IF ss = <<>> THEN <<>> ELSE Head(ss) \o Concat(Tail(ss))

(***************************************************************************)
(* loader.py: naming helpers                                               *)
(***************************************************************************)
\* Faulty variant: the separator after the stage root is missing
get_stage_from_schema_nosep(s) == <<"@", "~">> \o s

\* f'@~/{schema}'
get_stage_from_schema(s) == StagePrefix \o s

\* stage.replace('@~/', '')
get_schema_from_stage(st) == Replace(st, StagePrefix, <<>>)

\* Faulty variant: any gzip file is taken for a compressed CSV
IsCsvGzLoose(filename) == EndsWith(filename, Gz)

\* filename.endswith('.csv.gz')
IsCsvGz(filename) == EndsWith(filename, CsvGz)

\* filename.replace('.csv.gz', '')
TableName(filename) == Replace(filename, CsvGz, <<>>)

(***************************************************************************)
(* Inputs of process(): the zipfile's files and the schema argument        *)
(***************************************************************************)
X_CSV == <<"x", ".", "c", "s", "v">>          \* x.csv
Y_CSV_GZ == <<"y">> \o CsvGz                  \* y.csv.gz
A_CSV_GZ == <<"a">> \o CsvGz                  \* a.csv.gz
B_TXT == <<"b", ".", "t", "x", "t">>          \* b.txt
A_CSV_GZ_CSV_GZ == <<"a">> \o CsvGz \o CsvGz  \* a.csv.gz.csv.gz

Archives == { {X_CSV, Y_CSV_GZ}, {A_CSV_GZ, B_TXT, A_CSV_GZ_CSV_GZ} }
Schemas == { <<"s">>, <<"t">> }
NoSchema == <<>>

(***************************************************************************)
(* The warehouse, as far as the statements the loader issues reach it      *)
(***************************************************************************)
\* Path inside the user stage that the location text '@~/<path>' names
StageKey(loc) == SubSeq(loc, Len(StagePrefix) + 1, Len(loc))

\* Name under which a PUT file is stored. The PUT statement carries no
\* AUTO_COMPRESS option, so the warehouse's setting decides: with compression
\* on, a file that is not already gzip-compressed is stored as <name>.gz.
StagedName(f) == IF autoCompress /\ ~EndsWith(f, Gz) THEN f \o Gz ELSE f

\* Faulty variant: the stage is purged before the file is stored
StageAfterPutPurging(st, path) == {path}

\* Stage after a successful PUT: nothing is ever removed
StageAfterPut(st, path) == st \cup {path}

\* CREATE OR REPLACE TABLE: any table of that name is destroyed
TablesAfterCreate(t, key) == (key :> <<>>) @@ t

\* COPY INTO: the rows of the staged file are appended to the table
TablesAfterCopy(t, key, path) ==
    IF key \in DOMAIN t /\ path \in stage
    THEN (key :> Append(t[key], <<path, run>>)) @@ t
    ELSE t

\* All orders in which a set of rows can be returned
Orders(S) ==
    { f \in [1..Cardinality(S) -> S] :
        \A i, j \in 1..Cardinality(S) : i # j => f[i] # f[j] }

\* Rows `list <location>` returns: the staged paths under the location
Listed(loc) == { p \in stage : StartsWith(p, StageKey(loc)) }

(***************************************************************************)
(* process(): one action per statement                                     *)
(***************************************************************************)
Entry(op, a, b, ok) == [op |-> op, a |-> a, b |-> b, ok |-> ok]

\* Faulty variant: the exception of a rejected statement is swallowed
IssueSwallowing(op, a, b, ok, next) ==
    /\ log' = Append(log, Entry(op, a, b, ok))
    /\ pc' = next

\* A statement is issued; an exception aborts the invocation
Issue(op, a, b, ok, next) ==
    /\ log' = Append(log, Entry(op, a, b, ok))
    /\ pc' = IF ok THEN next ELSE "failed"

Init ==
    /\ pc = "idle"
    /\ run = 0
    /\ archive = {}
    /\ schema = NoSchema
    /\ autoCompress \in BOOLEAN
    /\ session = "none"
    /\ curSchema = NoSchema
    /\ schemas = {}
    /\ tempDir = "none"
    /\ todo = {}
    /\ stage = {}
    /\ staged = <<>>
    /\ k = 0
    /\ log = <<>>
    /\ tables = <<>>
    /\ everPut = {}
    /\ prev = [ok |-> FALSE, archive |-> {}, schema |-> NoSchema, tables |-> <<>>]
    /\ probe = <<>>
    /\ result = <<>>

\* The command is invoked (a new operating-system process). Nothing in the
\* program retries: a behaviour is a sequence of invocations that returned,
\* possibly ended by one that failed.
StartRun ==
    /\ pc \in {"idle", "done"}
    /\ run < MaxRuns
    /\ \E a \in Archives, s \in Schemas :
         /\ archive' = a
         /\ schema' = s
    /\ run' = run + 1
    /\ pc' = "settings"
    /\ log' = <<>>
    /\ todo' = {}
    /\ staged' = <<>>
    /\ k' = 0
    /\ curSchema' = NoSchema
    /\ session' = "none"
    /\ tempDir' = "none"
    /\ prev' = [ok |-> pc = "done", archive |-> archive, schema |-> schema,
                tables |-> tables]
    /\ UNCHANGED <<autoCompress, schemas, stage, tables, everPut, probe,
                   result>>

\* settings = Settings(); settings.snowflake_schema = schema
LoadSettings ==
    /\ pc = "settings"
    /\ \E ok \in BOOLEAN : pc' = IF ok THEN "connect" ELSE "failed"
    /\ UNCHANGED <<run, archive, schema, autoCompress, session, curSchema,
                   schemas, tempDir, todo, stage, staged, k, log, tables, everPut,
                   prev, probe, result>>

\* cursor = get_cursor(settings)
Connect ==
    /\ pc = "connect"
    /\ \E ok \in BOOLEAN :
         /\ Issue("CONNECT", schema, <<>>, ok, "create_schema")
         /\ session' = IF ok THEN "open" ELSE session
         /\ curSchema' = IF ok /\ schema \in schemas THEN schema ELSE NoSchema
    /\ UNCHANGED <<run, archive, schema, autoCompress, schemas, tempDir, todo,
                   stage, staged, k, tables, everPut, prev, probe, result>>

\* cursor.execute(f'CREATE SCHEMA IF NOT EXISTS {schema}')
CreateSchema ==
    /\ pc = "create_schema"
    /\ \E ok \in BOOLEAN :
         /\ Issue("CREATE SCHEMA", schema, <<>>, ok, "use_schema")
         /\ schemas' = IF ok THEN schemas \cup {schema} ELSE schemas
    /\ UNCHANGED <<run, archive, schema, autoCompress, session, curSchema,
                   tempDir, todo, stage, staged, k, tables, everPut, prev, probe,
                   result>>

\* cursor.execute(f'USE SCHEMA {schema}')
UseSchema ==
    /\ pc = "use_schema"
    /\ \E ok \in BOOLEAN :
         /\ Issue("USE SCHEMA", schema, <<>>, ok, "mkdtemp")
         /\ curSchema' = IF ok THEN schema ELSE curSchema
    /\ UNCHANGED <<run, archive, schema, autoCompress, session, schemas,
                   tempDir, todo, stage, staged, k, tables, everPut, prev, probe,
                   result>>

\* temp_dir = tempfile.mkdtemp()
MkTemp ==
    /\ pc = "mkdtemp"
    /\ \E ok \in BOOLEAN :
         /\ Issue("MKDTEMP", <<>>, <<>>, ok, "unpack")
         /\ tempDir' = IF ok THEN "exists" ELSE tempDir
    /\ UNCHANGED <<run, archive, schema, autoCompress, session, curSchema,
                   schemas, todo, stage, staged, k, tables, everPut, prev, probe,
                   result>>

\* shutil.unpack_archive(zipfile, temp_dir)
Unpack ==
    /\ pc = "unpack"
    /\ \E ok \in BOOLEAN :
         /\ Issue("UNPACK", <<>>, <<>>, ok, "upload")
         /\ todo' = IF ok THEN archive ELSE todo
    /\ UNCHANGED <<run, archive, schema, autoCompress, session, curSchema,
                   schemas, tempDir, stage, staged, k, tables, everPut, prev, probe,
                   result>>

\* for file in pathlib.Path(temp_dir).iterdir():
\*     local_file_to_stage(file, schema, cursor)
PutFile ==
    /\ pc = "upload"
    /\ \E f \in todo, ok \in BOOLEAN :
         LET target == get_stage_from_schema(schema) \o Slash
             path == StageKey(target) \o StagedName(f)
         IN  /\ Issue("PUT", f, target, ok, "upload")
             /\ todo' = todo \ {f}
             /\ stage' = IF ok THEN StageAfterPut(stage, path) ELSE stage
             /\ everPut' = IF ok THEN everPut \cup {path} ELSE everPut
    /\ UNCHANGED <<run, archive, schema, autoCompress, session, curSchema,
                   schemas, tempDir, staged, k, tables, prev, probe, result>>

\* shutil.rmtree(temp_dir), reached only when the upload loop ran to its end
RemoveTemp ==
    /\ pc = "upload"
    /\ todo = {}
    /\ Issue("RMTREE", <<>>, <<>>, TRUE, "list")
    /\ tempDir' = "removed"
    /\ UNCHANGED <<run, archive, schema, autoCompress, session, curSchema,
                   schemas, todo, stage, staged, k, tables, everPut, prev, probe,
                   result>>

\* cur.execute(f'list {stage}/'); staged = cur.fetchall()
ListStage ==
    /\ pc = "list"
    /\ \E ok \in BOOLEAN :
         LET loc == get_stage_from_schema(schema) \o Slash
         IN  /\ Issue("LIST", loc, <<>>, ok, "loop")
             /\ IF ok THEN staged' \in Orders(Listed(loc))
                      ELSE staged' = staged
    /\ UNCHANGED <<run, archive, schema, autoCompress, session, curSchema,
                   schemas, tempDir, todo, stage, k, tables, everPut, prev,
                   probe, result>>

\* if not filename.endswith('.csv.gz'): continue
SkipFile ==
    /\ pc = "loop"
    /\ k < Len(staged)
    /\ ~IsCsvGz(PathName(staged[k + 1]))
    /\ k' = k + 1
    /\ UNCHANGED <<pc, run, archive, schema, autoCompress, session, curSchema,
                   schemas, tempDir, todo, stage, staged, log, tables, everPut,
                   prev, probe, result>>

\* Faulty variant: a rejected CREATE OR REPLACE TABLE is swallowed and the
\* COPY INTO is issued all the same
CreateTableSwallowing ==
    /\ pc = "loop"
    /\ k < Len(staged)
    /\ IsCsvGz(PathName(staged[k + 1]))
    /\ \E ok \in BOOLEAN :
         LET filename == PathName(staged[k + 1])
             tablename == TableName(filename)
             loc == get_stage_from_schema(schema) \o Slash \o filename
         IN  /\ log' = Append(log, Entry("CREATE TABLE", tablename, loc, ok))
             /\ pc' = "copy"
             /\ tables' = IF ok
                          THEN TablesAfterCreate(tables, <<curSchema, tablename>>)
                          ELSE tables
    /\ UNCHANGED <<run, archive, schema, autoCompress, session, curSchema,
                   schemas, tempDir, todo, stage, staged, k, everPut, prev, probe,
                   result>>

\* create_table_and_load, first statement: CREATE OR REPLACE TABLE {tablename}
\* USING TEMPLATE (... INFER_SCHEMA(LOCATION=>'{stage}/{filename}' ...))
CreateTable ==
    /\ pc = "loop"
    /\ k < Len(staged)
    /\ IsCsvGz(PathName(staged[k + 1]))
    /\ \E ok \in BOOLEAN :
         LET filename == PathName(staged[k + 1])
             tablename == TableName(filename)
             loc == get_stage_from_schema(schema) \o Slash \o filename
         IN  /\ Issue("CREATE TABLE", tablename, loc, ok, "copy")
             /\ tables' = IF ok
                          THEN TablesAfterCreate(tables, <<curSchema, tablename>>)
                          ELSE tables
    /\ UNCHANGED <<run, archive, schema, autoCompress, session, curSchema,
                   schemas, tempDir, todo, stage, staged, k, everPut, prev, probe,
                   result>>

\* create_table_and_load, second statement:
\* copy into {tablename} from {stage}/{filename}
CopyInto ==
    /\ pc = "copy"
    /\ \E ok \in BOOLEAN :
         LET filename == PathName(staged[k + 1])
             tablename == TableName(filename)
             loc == get_stage_from_schema(schema) \o Slash \o filename
         IN  /\ Issue("COPY INTO", tablename, loc, ok, "loop")
             /\ tables' = IF ok
                          THEN TablesAfterCopy(tables, <<curSchema, tablename>>,
                                               StageKey(loc))
                          ELSE tables
             /\ k' = IF ok THEN k + 1 ELSE k
    /\ UNCHANGED <<run, archive, schema, autoCompress, session, curSchema,
                   schemas, tempDir, todo, stage, staged, everPut, prev, probe,
                   result>>

\* the loop over staged is exhausted: process() returns, exit code 0
Return ==
    /\ pc = "loop"
    /\ k = Len(staged)
    /\ pc' = "done"
    /\ UNCHANGED <<run, archive, schema, autoCompress, session, curSchema,
                   schemas, tempDir, todo, stage, staged, k, log, tables, everPut,
                   prev, probe, result>>

Next ==
    \/ StartRun
    \/ LoadSettings
    \/ Connect
    \/ CreateSchema
    \/ UseSchema
    \/ MkTemp
    \/ Unpack
    \/ PutFile
    \/ RemoveTemp
    \/ ListStage
    \/ SkipFile
    \/ CreateTable
    \/ CopyInto
    \/ Return

Spec == Init /\ [][Next]_vars

(***************************************************************************)
(* The naming helpers on their own: the input is drawn in the initial      *)
(* state, one action applies the function                                  *)
(***************************************************************************)
ProbeStrings(pieces) ==
    { Concat(ss) : ss \in UNION { [1..n -> pieces] : n \in 0..MaxPieces } }

SchemaPieces == { <<"s">>, StagePrefix, <<"@">>, <<"~", "/">> }
FilePieces == { <<"a">>, <<"f", "o", "o">>, CsvGz, <<".", "c", "s", "v">>, Gz }

InitProbe(inputs) ==
    /\ pc = "probe"
    /\ probe \in inputs
    /\ result = <<>>
    /\ run = 0
    /\ archive = {}
    /\ schema = NoSchema
    /\ autoCompress = FALSE
    /\ session = "none"
    /\ curSchema = NoSchema
    /\ schemas = {}
    /\ tempDir = "none"
    /\ todo = {}
    /\ stage = {}
    /\ staged = <<>>
    /\ k = 0
    /\ log = <<>>
    /\ tables = <<>>
    /\ everPut = {}
    /\ prev = [ok |-> FALSE, archive |-> {}, schema |-> NoSchema, tables |-> <<>>]

Probed(next, value) ==
    /\ pc' = next
    /\ result' = value
    /\ UNCHANGED <<run, archive, schema, autoCompress, session, curSchema,
                   schemas, tempDir, todo, stage, staged, k, log, tables,
                   everPut, prev, probe>>

\* get_schema_from_stage(get_stage_from_schema(s))
RoundTrip ==
    /\ pc = "probe"
    /\ Probed("round_trip", get_schema_from_stage(get_stage_from_schema(probe)))

InitStage == InitProbe(ProbeStrings(SchemaPieces))
NextStage == RoundTrip
SpecStage == InitStage /\ [][NextStage]_vars

\* create_tables_from_staged on one row: the name is kept only if it ends in
\* '.csv.gz', and the table name is derived from it
DeriveTable ==
    /\ pc = "probe"
    /\ IsCsvGz(PathName(probe))
    /\ Probed("derived", TableName(PathName(probe)))

SkipProbe ==
    /\ pc = "probe"
    /\ ~IsCsvGz(PathName(probe))
    /\ Probed("skipped", <<>>)

InitName == InitProbe(ProbeStrings(FilePieces))
NextName == DeriveTable \/ SkipProbe
SpecName == InitName /\ [][NextName]_vars

(***************************************************************************)
(* Claims                                                                  *)
(***************************************************************************)
Exited == pc \in {"done", "failed"}

\* C1: the scratch directory is absent after the run, on every exit path
\* (success, failed unpack, failed PUT).
C1_ScratchAbsentOnExit == Exited => tempDir # "exists"

\* C2: the session opened by get_cursor is closed on every exit path.
C2_SessionReleasedOnExit == Exited => session # "open"

\* C3: get_schema_from_stage(get_stage_from_schema(s)) = s for every schema
\* string s, also one that contains '@~/'.
C3_RoundTrip == pc = "round_trip" => result = probe

\* C4: the table name of a file name ending in '.csv.gz' is the file name
\* without that trailing suffix, every other character unchanged.
C4_TrailingSuffixOnly ==
    pc = "derived" =>
        result = SubSeq(PathName(probe), 1, Len(PathName(probe)) - Len(CsvGz))

(* Vocabulary of the claims about one invocation *)
Idx(op) == { i \in 1..Len(log) : log[i].op = op }
Matching(i) == EndsWith(PathName(staged[i]), CsvGz)
\* location text '{stage}/{filename}' of the row staged[i]
LocOf(i) == StagePrefix \o staged[i]
CallsFor(i) == { j \in Idx("CREATE TABLE") : log[j].b = LocOf(i) }
CreatedTables == { log[i].a : i \in Idx("CREATE TABLE") }
CopiedTables == { log[i].a : i \in Idx("COPY INTO") }
InSchema(p) == StartsWith(p, schema \o Slash)

\* C5: create_table_and_load is called exactly once for each listed file
\* whose base name ends in '.csv.gz' and never for another listed file; a
\* skipped file does not stop the loop, which visits every row.
C5_ExactlyTheMatchingFiles ==
    pc = "done" =>
        /\ k = Len(staged)
        /\ \A i \in 1..Len(staged) :
             Cardinality(CallsFor(i)) = IF Matching(i) THEN 1 ELSE 0
        /\ Cardinality(Idx("CREATE TABLE"))
             = Cardinality({ i \in 1..Len(staged) : Matching(i) })

\* C5 witness: a listing [match, other, match] was processed to its end.
C5_Witness ==
    /\ pc = "done"
    /\ \E i, j, l \in 1..Len(staged) :
         i < j /\ j < l /\ Matching(i) /\ ~Matching(j) /\ Matching(l)

\* C6: a rejected CREATE OR REPLACE TABLE is the last statement of the
\* invocation: no COPY INTO for that file, nothing for any later file.
C6_RejectedCreateAborts ==
    \A i \in 1..Len(log) :
        (log[i].op = "CREATE TABLE" /\ ~log[i].ok) =>
            (i = Len(log) /\ pc = "failed")

\* C6 witness: CREATE was rejected while a later '.csv.gz' row was pending.
C6_Witness ==
    /\ pc = "failed"
    /\ Len(log) > 0
    /\ log[Len(log)].op = "CREATE TABLE"
    /\ ~log[Len(log)].ok
    /\ \E i \in (k + 2)..Len(staged) : Matching(i)

(* C7: the archive {x.csv, y.csv.gz} against a schema whose stage holds     *)
(* nothing but what this invocation put there                              *)
C7_Case ==
    /\ pc = "done"
    /\ archive = {X_CSV, Y_CSV_GZ}
    /\ \A p \in stage :
         InSchema(p) => \E f \in archive : p = schema \o Slash \o StagedName(f)

C7_OnePutEach ==
    /\ Cardinality(Idx("PUT")) = 2
    /\ \A f \in archive :
         \E i \in Idx("PUT") :
             /\ log[i].a = f
             /\ log[i].b = StagePrefix \o schema \o Slash
             /\ log[i].ok

\* C7 (as claimed): one PUT per file against '@~/s/'; afterwards CREATE and
\* COPY are issued only for y, x.csv stays in the stage and has no table.
C7_OnlyY ==
    C7_Case =>
        /\ C7_OnePutEach
        /\ CreatedTables = { <<"y">> }
        /\ CopiedTables = { <<"y">> }
        /\ (schema \o Slash \o X_CSV) \in stage
        /\ <<schema, <<"x">>>> \notin DOMAIN tables

\* C7 (amended): one PUT per file against '@~/s/'; afterwards CREATE and COPY
\* are issued exactly for the staged names ending in '.csv.gz': always y, and
\* x exactly when the warehouse stored x.csv compressed, as x.csv.gz. A file
\* staged under the name x.csv gets no table.
C7_StagedCsvGzOnly ==
    C7_Case =>
        LET xgz == (schema \o Slash \o X_CSV \o Gz) \in stage
            want == { <<"y">> } \cup (IF xgz THEN { <<"x">> } ELSE {})
        IN  /\ C7_OnePutEach
            /\ CreatedTables = want
            /\ CopiedTables = want
            /\ \A i \in Idx("CREATE TABLE") \cup Idx("COPY INTO") :
                 log[i].b # StagePrefix \o schema \o Slash \o X_CSV
            /\ (schema \o Slash \o X_CSV) \in stage
                 => <<schema, <<"x">>>> \notin DOMAIN tables

\* C7 witness: the run ended with x.csv stored as x.csv.gz and table x made.
C7_Witness ==
    /\ C7_Case
    /\ (schema \o Slash \o X_CSV \o Gz) \in stage
    /\ CreatedTables = { <<"x">>, <<"y">> }

(* C8: order of the steps of one invocation                                *)
Follows(e, f) ==
    CASE e.op = "CONNECT" -> f.op = "CREATE SCHEMA"
      [] e.op = "CREATE SCHEMA" -> f.op = "USE SCHEMA"
      [] e.op = "USE SCHEMA" -> f.op = "MKDTEMP"
      [] e.op = "MKDTEMP" -> f.op = "UNPACK"
      [] e.op = "UNPACK" -> f.op \in {"PUT", "RMTREE"}
      [] e.op = "PUT" -> f.op \in {"PUT", "RMTREE"}
      [] e.op = "RMTREE" -> f.op = "LIST"
      [] e.op = "LIST" -> f.op = "CREATE TABLE"
      [] e.op = "CREATE TABLE" -> f.op = "COPY INTO" /\ f.a = e.a /\ f.b = e.b
      [] e.op = "COPY INTO" -> f.op = "CREATE TABLE"
      [] OTHER -> FALSE

C8_Order ==
    /\ Len(log) > 0 => log[1].op = "CONNECT"
    /\ \A i \in 1..(Len(log) - 1) : log[i].ok /\ Follows(log[i], log[i + 1])
    /\ (Len(log) > 0 /\ ~log[Len(log)].ok) => pc = "failed"
    /\ Idx("LIST") # {} =>
         \A f \in archive :
             Cardinality({ i \in Idx("PUT") : log[i].a = f /\ log[i].ok }) = 1

\* C8: the steps are issued in the order connect, CREATE SCHEMA, USE SCHEMA,
\* unpack, every PUT, stage listing, then per file CREATE TABLE followed by
\* COPY INTO; every step but the last has completed; once a step has failed
\* nothing is issued any more.
C8_StrictSequence ==
    /\ []C8_Order
    /\ [][pc = "failed" => UNCHANGED vars]_vars

\* C8 witness: an invocation went through every kind of step and returned.
C8_Witness ==
    /\ pc = "done"
    /\ Cardinality(Idx("PUT")) >= 2
    /\ Idx("COPY INTO") # {}

(* C9: full refresh                                                        *)
RowsOf(t) == [key \in DOMAIN t |-> [i \in 1..Len(t[key]) |-> t[key][i][1]]]

\* C9: after a successful run the table of every staged '.csv.gz' file holds
\* exactly the rows this run loaded from that file, nothing appended; a run
\* with the archive and schema of the run before it leaves the same tables.
C9_FullRefreshIdempotent ==
    pc = "done" =>
        /\ \A i \in 1..Len(staged) :
             Matching(i) =>
                 LET key == <<schema, TableName(PathName(staged[i]))>>
                 IN  /\ key \in DOMAIN tables
                     /\ tables[key] = << <<staged[i], run>> >>
        /\ (prev.ok /\ prev.archive = archive /\ prev.schema = schema)
             => RowsOf(tables) = RowsOf(prev.tables)

\* C10: no operation removes a staged file, and a run that returns has
\* issued CREATE OR REPLACE TABLE and COPY INTO for every '.csv.gz' file any
\* run has staged under its schema; the tables it (re)creates are those of
\* the stage listing's '.csv.gz' rows.
C10_StageListingDecides ==
    /\ everPut \subseteq stage
    /\ pc = "done" =>
         /\ \A p \in everPut :
              (InSchema(p) /\ EndsWith(p, CsvGz)) =>
                  \E i \in Idx("CREATE TABLE"), j \in Idx("COPY INTO") :
                      /\ i < j
                      /\ log[i].b = StagePrefix \o p /\ log[i].ok
                      /\ log[j].b = StagePrefix \o p /\ log[j].ok
         /\ { log[i].b : i \in Idx("CREATE TABLE") }
              = { LocOf(i) : i \in { j \in 1..Len(staged) : Matching(j) } }

\* C10 witness: a run materialized a file that only an earlier run staged.
C10_Witness ==
    /\ pc = "done"
    /\ \E p \in everPut :
         /\ InSchema(p)
         /\ EndsWith(p, CsvGz)
         /\ \A f \in archive : p # schema \o Slash \o StagedName(f)
         /\ \E i \in Idx("CREATE TABLE") : log[i].b = StagePrefix \o p

====
